---- MODULE Spec2Model ----
(***************************************************************************)
(* Model of createBufferFromPoint.py: a script tool that reads six host    *)
(* parameters, projects a WGS 1984 point to PA State Plane South (feet)    *)
(* and builds a multiple ring buffer around it.  The geoprocessing engine  *)
(* (arcpy) is the environment: each call into it either returns or raises, *)
(* and the status of a returned result is advanced by the engine.          *)
(***************************************************************************)
EXTENDS Naturals, Integers, Sequences, FiniteSets, TLC

VARIABLES
    pc,              \* position of the script
    hostParameters,  \* the tool dialog: index -> text (arcpy.GetParameterAsText)
    lat, lon, spcPoint, buffDist, buffUnits, pointBuffer,  \* module globals
    clock,           \* wall clock, in sleep intervals (0.2 s) since the run began
    geometryPoint,   \* local of createSPCPoint
    result,          \* local "result" of the running step
    e,               \* exception being handled (sys.exc_info()[1])
    unhandled,       \* exception that left the script, if any
    messages,        \* host message sink (arcpy.AddMessage), in order
    errors,          \* host error channel (arcpy.AddError), in order
    calls            \* geoprocessing operations invoked on the engine, in order

globals == <<lat, lon, spcPoint, buffDist, buffUnits, pointBuffer>>
vars == <<pc, hostParameters, lat, lon, spcPoint, buffDist, buffUnits, pointBuffer,
          clock, geometryPoint, result, e, unhandled, messages, errors, calls>>

-----------------------------------------------------------------------------
(* Bounds *)

\* sleep intervals after which the modelled clock stops advancing
MaxClock == 5
\* largest status value the engine reports for a result
MaxStatus == 5

(* Program constants *)

\* while result.status < 4
CompletedCode == 4
\* time.sleep(0.2): five sleep intervals per second
TicksPerSecond == 5
\* arcpy.SpatialReference(4326)
WGS84Code == 4326
\* arcpy.SpatialReference(2272)
SPCCode == 2272

-----------------------------------------------------------------------------
(* Inputs the host dialog may deliver, all text *)

Latitudes == {"40.2", "north"}
Longitudes == {"-76.9", "40.2"}
OutputPaths == {"C:/out/site.shp", "C:/out/rings.shp"}
Distances == {"100;200", "far"}
Units == {"Feet", ""}

Unset == "<unbound>"

\* A Python value that is either a str or not (an int here), written by its repr.
PyStr(s) == [isStr |-> TRUE, val |-> s]
PyInt(s) == [isStr |-> FALSE, val |-> s]

NoException == [type |-> "None", args |-> <<>>]

\* Exceptions the engine may raise from a call: with a text message, with no
\* arguments, with a non-text first argument (an errno).
EngineExceptions ==
    { [type |-> "ExecuteError", args |-> <<PyStr("ERROR 000732: Dataset does not exist")>>],
      [type |-> "RuntimeError", args |-> <<>>],
      [type |-> "IOError",      args |-> <<PyInt("13"), PyStr("Permission denied")>>] }

NoGeometry == [X |-> Unset, Y |-> Unset, sr |-> 0]
NoResult == [tool |-> "None", status |-> 0, messages |-> ""]

-----------------------------------------------------------------------------
(* Pure helpers *)

Digit == <<"0", "1", "2", "3", "4", "5", "6", "7", "8", "9">>
Pad2(n) == Digit[((n \div 10) % 10) + 1] \o Digit[(n % 10) + 1]

\* datetime.datetime.now(): seconds since midnight of the day of the run
\* (the run begins at 09:59:59 on 02-13-2017).
now == (9 * 3600 + 59 * 60 + 59) + (clock \div TicksPerSecond)

\* currentTime.strftime("%m-%d-%Y %H:%M:%S")
strftime(t) ==
    "02-13-2017 " \o Pad2((t \div 3600) % 24) \o ":" \o Pad2((t \div 60) % 60)
        \o ":" \o Pad2(t % 60)

\* arcpy.AddMessage(text): the sink after the call
AddMessage(sink, text) == Append(sink, text)

\* arcpy.AddError(text): the error channel after the call
AddError(channel, text) == Append(channel, text)

\* a helper that forwards the text without the time stamp
addMessage_unstamped(sink, t, message) == AddMessage(sink, message \o " \n \n")

\* addMessage(message): '{} : {} \n \n'.format(formattedTime, message) to the sink
addMessage(sink, t, message) ==
    AddMessage(sink, strftime(t) \o " : " \o message \o " \n \n")

\* 'Created WGS 1984 point for latitude: {} and longitude {}.'.format(lat, lon)
CreatedPointText(la, lo) ==
    "Created WGS 1984 point for latitude: " \o la \o " and longitude " \o lo \o "."

\* 'Created buffer(s) around location latitude: {}; longitude: {}.'.format(lat, lon)
CreatedBuffersText(la, lo) ==
    "Created buffer(s) around location latitude: " \o la \o "; longitude: " \o lo \o "."

ConvertingText == "Converting WGS 1984 point to PA State Plane South (feet) point."
ReprojectedText == "Reprojected point from WGS 1984 to PA State Plane South (feet)."
CompletedText == "Create Buffer from Point tool has completed running."
GenericErrorText == "There was an error running this tool \n \n"

\* arcpy.Point(X, Y)
Point(X, Y) == [X |-> X, Y |-> Y]

\* arcpy.PointGeometry(point, spatial_reference)
PointGeometry(point, sr) == [X |-> point.X, Y |-> point.Y, sr |-> sr]

\* the geometry with latitude and longitude in signature order
MakeGeometry_unswapped(la, lo) == PointGeometry(Point(la, lo), WGS84Code)

\* createSPCPoint's geometry: arcpy.Point(lon, lat) in WGS 1984
MakeGeometry(la, lo) == PointGeometry(Point(lo, la), WGS84Code)

\* the loop condition with an off-by-one completion code
StillRunning_early(r) == r.status < CompletedCode - 1

\* while result.status < 4
StillRunning(r) == r.status < CompletedCode

\* result.getMessages()
getMessages(r) == r.messages

\* what the engine returns from a geoprocessing call
EngineResult(tool, status) ==
    [tool |-> tool, status |-> status, messages |-> "Executing: " \o tool]

\* the arguments of arcpy.Project_management(...)
ProjectCall(geometry, outLayer) ==
    [tool |-> "Project_management", in |-> geometry, out |-> outLayer,
     out_coor_system |-> SPCCode, transform_method |-> "NAD_1983_To_WGS_1984_1",
     preserve_shape |-> "PRESERVE_SHAPE", distances |-> "", units |-> ""]

\* the arguments of arcpy.MultipleRingBuffer_analysis(point, outLayer, distances, units)
BufferCall(point, outLayer, distances, units) ==
    [tool |-> "MultipleRingBuffer_analysis", in |-> [X |-> point, Y |-> "", sr |-> 0],
     out |-> outLayer, out_coor_system |-> 0, transform_method |-> "",
     preserve_shape |-> "", distances |-> distances, units |-> units]

\* e.args[0] + '\n \n' in the handlers: the text, or the exception it raises
HandlerText(ex) ==
    IF Len(ex.args) = 0
    THEN [ok |-> FALSE, text |-> "",
          raised |-> [type |-> "IndexError",
                      args |-> <<PyStr("tuple index out of range")>>]]
    ELSE IF ~ex.args[1].isStr
    THEN [ok |-> FALSE, text |-> "",
          raised |-> [type |-> "TypeError",
                      args |-> <<PyStr("unsupported operand type(s) for +: 'int' and 'str'")>>]]
    ELSE [ok |-> TRUE, text |-> ex.args[1].val \o "\n \n", raised |-> NoException]

-----------------------------------------------------------------------------
(* Initial state: the interpreter is about to run the module body *)

Init ==
    /\ pc = "params"
    /\ hostParameters \in
         { <<la, lo, p, d, u, b>> :
             la \in Latitudes, lo \in Longitudes, p \in OutputPaths,
             d \in Distances, u \in Units, b \in OutputPaths }
    /\ lat = Unset /\ lon = Unset /\ spcPoint = Unset
    /\ buffDist = Unset /\ buffUnits = Unset /\ pointBuffer = Unset
    /\ clock = 0
    /\ geometryPoint = NoGeometry
    /\ result = NoResult
    /\ e = NoException
    /\ unhandled = NoException
    /\ messages = <<>>
    /\ errors = <<>>
    /\ calls = <<>>

\* arcpy.GetParameterAsText(index)
GetParameterAsText(index) == hostParameters[index + 1]

-----------------------------------------------------------------------------
(* Module body, lines 34-44 *)

\* the parameter reads with the two path indices exchanged
GetParameters_swapped ==
    /\ pc = "params"
    /\ lat' = GetParameterAsText(0)
    /\ lon' = GetParameterAsText(1)
    /\ spcPoint' = GetParameterAsText(5)
    /\ buffDist' = GetParameterAsText(3)
    /\ buffUnits' = GetParameterAsText(4)
    /\ pointBuffer' = GetParameterAsText(2)
    /\ pc' = "converting"
    /\ UNCHANGED <<hostParameters, clock, geometryPoint, result, e, unhandled,
                   messages, errors, calls>>

GetParameters ==
    /\ pc = "params"
    /\ lat' = GetParameterAsText(0)
    /\ lon' = GetParameterAsText(1)
    /\ spcPoint' = GetParameterAsText(2)
    /\ buffDist' = GetParameterAsText(3)
    /\ buffUnits' = GetParameterAsText(4)
    /\ pointBuffer' = GetParameterAsText(5)
    /\ pc' = "converting"
    /\ UNCHANGED <<hostParameters, clock, geometryPoint, result, e, unhandled,
                   messages, errors, calls>>

\* line 140
ConvertingMessage ==
    /\ pc = "converting"
    /\ messages' = addMessage(messages, now, ConvertingText)
    /\ pc' = "spc_geometry"
    /\ UNCHANGED <<hostParameters, globals, clock, geometryPoint, result, e,
                   unhandled, errors, calls>>

-----------------------------------------------------------------------------
(* createSPCPoint(lat, lon, spcPoint), line 143 *)

\* lines 67-77: spatial references, point, point geometry; the engine may raise
SpcGeometry ==
    /\ pc = "spc_geometry"
    /\ \/ /\ geometryPoint' = MakeGeometry(lat, lon)
          /\ pc' = "spc_created"
          /\ e' = e
       \/ /\ \E ex \in EngineExceptions : e' = ex
          /\ pc' = "spc_except"
          /\ geometryPoint' = geometryPoint
    /\ UNCHANGED <<hostParameters, globals, clock, result, unhandled, messages,
                   errors, calls>>

\* line 80
SpcCreatedMessage ==
    /\ pc = "spc_created"
    /\ messages' = addMessage(messages, now, CreatedPointText(lat, lon))
    /\ pc' = "spc_project"
    /\ UNCHANGED <<hostParameters, globals, clock, geometryPoint, result, e,
                   unhandled, errors, calls>>

\* line 86: the engine is invoked; it returns a result or raises
SpcProject ==
    /\ pc = "spc_project"
    /\ calls' = Append(calls, ProjectCall(geometryPoint, spcPoint))
    /\ \/ /\ \E s \in 0..MaxStatus : result' = EngineResult("Project_management", s)
          /\ pc' = "spc_poll"
          /\ e' = e
       \/ /\ \E ex \in EngineExceptions : e' = ex
          /\ pc' = "spc_except"
          /\ result' = result
    /\ UNCHANGED <<hostParameters, globals, clock, geometryPoint, unhandled,
                   messages, errors>>

\* lines 90-91: one turn of the loop, time.sleep(0.2)
SpcSleep ==
    /\ pc = "spc_poll"
    /\ StillRunning(result)
    /\ clock' = IF clock < MaxClock THEN clock + 1 ELSE clock
    /\ UNCHANGED <<pc, hostParameters, globals, geometryPoint, result, e,
                   unhandled, messages, errors, calls>>

\* lines 90, 93-95: the loop ends, the result's messages go to the sink
SpcResultMessages ==
    /\ pc = "spc_poll"
    /\ ~StillRunning(result)
    /\ messages' = AddMessage(messages, getMessages(result) \o "\n \n")
    /\ pc' = "spc_success"
    /\ UNCHANGED <<hostParameters, globals, clock, geometryPoint, result, e,
                   unhandled, errors, calls>>

\* line 98, then the function returns
SpcSuccessMessage ==
    /\ pc = "spc_success"
    /\ messages' = addMessage(messages, now, ReprojectedText)
    /\ pc' = "buf_call"
    /\ result' = NoResult
    /\ geometryPoint' = NoGeometry
    /\ UNCHANGED <<hostParameters, globals, clock, e, unhandled, errors, calls>>

\* a handler that tries the step again
SpcExcept_retry ==
    /\ pc = "spc_except"
    /\ errors' = AddError(errors, GenericErrorText)
    /\ pc' = "spc_geometry"
    /\ e' = NoException
    /\ UNCHANGED <<hostParameters, globals, clock, geometryPoint, result,
                   unhandled, messages, calls>>

\* lines 101-107: the handler; e.args[0] + '\n \n' may itself raise, and that
\* exception leaves the function and the script
SpcExcept ==
    /\ pc = "spc_except"
    /\ IF HandlerText(e).ok
       THEN /\ errors' = AddError(AddError(errors, HandlerText(e).text), GenericErrorText)
            /\ pc' = "buf_call"
            /\ unhandled' = unhandled
       ELSE /\ errors' = errors
            /\ pc' = "aborted"
            /\ unhandled' = HandlerText(e).raised
    /\ e' = NoException
    /\ result' = NoResult
    /\ geometryPoint' = NoGeometry
    /\ UNCHANGED <<hostParameters, globals, clock, messages, calls>>

-----------------------------------------------------------------------------
(* createBuffers(spcPoint, pointBuffer, buffDist, buffUnits), line 146 *)

\* line 116: the engine is invoked; it returns a result or raises
BufCall ==
    /\ pc = "buf_call"
    /\ calls' = Append(calls, BufferCall(spcPoint, pointBuffer, buffDist, buffUnits))
    /\ \/ /\ \E s \in 0..MaxStatus :
                result' = EngineResult("MultipleRingBuffer_analysis", s)
          /\ pc' = "buf_poll"
          /\ e' = e
       \/ /\ \E ex \in EngineExceptions : e' = ex
          /\ pc' = "buf_except"
          /\ result' = result
    /\ UNCHANGED <<hostParameters, globals, clock, geometryPoint, unhandled,
                   messages, errors>>

\* lines 120-121
BufSleep ==
    /\ pc = "buf_poll"
    /\ StillRunning(result)
    /\ clock' = IF clock < MaxClock THEN clock + 1 ELSE clock
    /\ UNCHANGED <<pc, hostParameters, globals, geometryPoint, result, e,
                   unhandled, messages, errors, calls>>

\* lines 120, 123-125
BufResultMessages ==
    /\ pc = "buf_poll"
    /\ ~StillRunning(result)
    /\ messages' = AddMessage(messages, getMessages(result) \o "\n \n")
    /\ pc' = "buf_success"
    /\ UNCHANGED <<hostParameters, globals, clock, geometryPoint, result, e,
                   unhandled, errors, calls>>

\* line 128 (reads the globals lat and lon), then the function returns
BufSuccessMessage ==
    /\ pc = "buf_success"
    /\ messages' = addMessage(messages, now, CreatedBuffersText(lat, lon))
    /\ pc' = "completed"
    /\ result' = NoResult
    /\ UNCHANGED <<hostParameters, globals, clock, geometryPoint, e, unhandled,
                   errors, calls>>

\* a handler that reports the error and then reports success as well
BufExcept_falls_through ==
    /\ pc = "buf_except"
    /\ errors' = AddError(errors, GenericErrorText)
    /\ messages' = addMessage(messages, now, CreatedBuffersText(lat, lon))
    /\ pc' = "completed"
    /\ e' = NoException
    /\ result' = NoResult
    /\ UNCHANGED <<hostParameters, globals, clock, geometryPoint, unhandled, calls>>

\* lines 130-136
BufExcept ==
    /\ pc = "buf_except"
    /\ IF HandlerText(e).ok
       THEN /\ errors' = AddError(AddError(errors, HandlerText(e).text), GenericErrorText)
            /\ pc' = "completed"
            /\ unhandled' = unhandled
       ELSE /\ errors' = errors
            /\ pc' = "aborted"
            /\ unhandled' = HandlerText(e).raised
    /\ e' = NoException
    /\ result' = NoResult
    /\ UNCHANGED <<hostParameters, globals, clock, geometryPoint, messages, calls>>

\* line 149
CompletedMessage ==
    /\ pc = "completed"
    /\ messages' = addMessage(messages, now, CompletedText)
    /\ pc' = "done"
    /\ UNCHANGED <<hostParameters, globals, clock, geometryPoint, result, e,
                   unhandled, errors, calls>>

-----------------------------------------------------------------------------
(* The engine: the status of the result it handed out moves forward *)

EngineProgress ==
    /\ result # NoResult
    /\ result.status < MaxStatus
    /\ \E s \in (result.status + 1)..MaxStatus :
          result' = [result EXCEPT !.status = s]
    /\ UNCHANGED <<pc, hostParameters, globals, clock, geometryPoint, e,
                   unhandled, messages, errors, calls>>

\* The wall clock moves on while the script runs.
Tick ==
    /\ pc \notin {"done", "aborted"}
    /\ clock < MaxClock
    /\ clock' = clock + 1
    /\ UNCHANGED <<pc, hostParameters, globals, geometryPoint, result, e,
                   unhandled, messages, errors, calls>>

Script ==
    \/ GetParameters
    \/ ConvertingMessage
    \/ SpcGeometry
    \/ SpcCreatedMessage
    \/ SpcProject
    \/ SpcSleep
    \/ SpcResultMessages
    \/ SpcSuccessMessage
    \/ SpcExcept
    \/ BufCall
    \/ BufSleep
    \/ BufResultMessages
    \/ BufSuccessMessage
    \/ BufExcept
    \/ CompletedMessage

Next == Script \/ EngineProgress \/ Tick

Spec == Init /\ [][Next]_vars

\* The interpreter keeps running the script: a statement that can run does run.
FairSpec == Spec /\ WF_vars(Script)

-----------------------------------------------------------------------------
(* Vocabulary of the properties *)

ProjectTool == "Project_management"
BufferTool == "MultipleRingBuffer_analysis"

\* the wall-clock seconds the modelled run can see
Times == { (9 * 3600 + 59 * 60 + 59) + (c \div TicksPerSecond) : c \in 0..MaxClock }

\* m is text behind a "%m-%d-%Y %H:%M:%S" stamp, as the helper writes it
IsStamped(m, text) ==
    \E t \in Times : m = strftime(t) \o " : " \o text \o " \n \n"

Has(text) == \E i \in DOMAIN messages : IsStamped(messages[i], text)
HasRaw(text) == \E i \in DOMAIN messages : messages[i] = text
Count(tool) == Cardinality({ i \in DOMAIN calls : calls[i].tool = tool })

SpcResultText == "Executing: Project_management\n \n"
BufResultText == "Executing: MultipleRingBuffer_analysis\n \n"

SpcSucceeded == Has(ReprojectedText)
SpcSurfaced == HasRaw(SpcResultText)
BufSucceeded == Has(CreatedBuffersText(hostParameters[1], hostParameters[2]))
BufSurfaced == HasRaw(BufResultText)

BeforeSpc == {"params", "converting"}
SpcPcs == {"spc_geometry", "spc_created", "spc_project", "spc_poll", "spc_success",
           "spc_except"}
BufPcs == {"buf_call", "buf_poll", "buf_success", "buf_except"}
Terminated == pc \in {"done", "aborted"}
Polling == pc \in {"spc_poll", "buf_poll"}

\* position of a sink entry in the order the script makes its message calls
Kind(m) ==
    IF IsStamped(m, ConvertingText) THEN 1
    ELSE IF IsStamped(m, CreatedPointText(hostParameters[1], hostParameters[2])) THEN 2
    ELSE IF m = SpcResultText THEN 3
    ELSE IF IsStamped(m, ReprojectedText) THEN 4
    ELSE IF m = BufResultText THEN 5
    ELSE IF IsStamped(m, CreatedBuffersText(hostParameters[1], hostParameters[2])) THEN 6
    ELSE IF IsStamped(m, CompletedText) THEN 7
    ELSE 0

-----------------------------------------------------------------------------
\* C1: whatever failure occurs inside the projection step, it is caught and
\* logged inside the step and the buffer operation is still attempted: a run
\* that has ended without the projection's success message has written the
\* projection's two error lines and has invoked the buffer operation.
C1_FailedProjectionStillBuffers ==
    (Terminated /\ ~SpcSucceeded) =>
        /\ Count(BufferTool) = 1
        /\ Len(errors) >= 2

\* C2: on any exception raised in a step's try block (also one with no
\* arguments or a non-text first argument) the handler writes the exception's
\* message and then the generic message to the error channel and returns
\* normally to the module body.
C2_HandlerLogsAndReturns ==
    [][ (pc \in {"spc_except", "buf_except"} /\ pc' # pc) =>
            /\ Len(errors') = Len(errors) + 2
            /\ errors'[Len(errors')] = GenericErrorText
            /\ SubSeq(errors', 1, Len(errors)) = errors
            /\ pc' \in {"buf_call", "completed"}
            /\ unhandled' = NoException ]_vars

\* C3: a step blocks until the engine reports completion: while the result's
\* status is below 4 the step stays in its loop and writes nothing, and the
\* result's messages and the step's success message are written only in a
\* state where the status is at least 4.
C3_BlocksUntilCompletion ==
    [][ /\ (Polling /\ result.status < 4) =>
              (pc' = pc /\ messages' = messages /\ errors' = errors)
        /\ (pc \in {"spc_poll", "spc_success", "buf_poll", "buf_success"}
              /\ messages' # messages) => result.status >= 4 ]_vars

\* C3 witness: the projection step left its loop and wrote the result's
\* messages and its success message, and the buffer step now waits in its
\* loop on a result whose status is below 4.
C3_Witness ==
    /\ pc = "buf_poll"
    /\ result.status < 4
    /\ SpcSurfaced
    /\ SpcSucceeded
    /\ ~BufSurfaced

\* C4: no timeout: the run ends with the final message if every invoked
\* operation raises or eventually reports a status of at least 4, and a step
\* leaves its loop only when the status is at least 4.
C4_TerminatesWithFinalMessage ==
    /\ ([]<>(~(Polling /\ result.status < 4))) => <>(pc = "done")
    /\ [][ (Polling /\ pc' # pc) => result.status >= 4 ]_vars

\* C5: failure is not signalled: in every run no exception leaves the script,
\* and the run ends with the final message written exactly once, as the last
\* entry of the sink.
C5_AlwaysEndsNormally ==
    /\ unhandled = NoException
    /\ pc # "aborted"
    /\ pc = "done" =>
          /\ messages # <<>>
          /\ IsStamped(messages[Len(messages)], CompletedText)
          /\ Cardinality({ i \in DOMAIN messages :
                             IsStamped(messages[i], CompletedText) }) = 1

\* C6: no retry: the project operation and the buffer operation are each
\* invoked at most once, and the buffer operation is invoked only after the
\* projection step has finished, completed or errored.
C6_NoRetry ==
    /\ Count(ProjectTool) <= 1
    /\ Count(BufferTool) <= 1
    /\ Count(BufferTool) = 1 =>
          /\ pc \notin BeforeSpc \cup SpcPcs
          /\ SpcSucceeded \/ Len(errors) >= 2
          /\ Count(ProjectTool) = 1 => calls[1].tool = ProjectTool

\* C6 witness: both operations raised, each was invoked once, the run ended.
C6_Witness ==
    /\ pc = "done"
    /\ Len(errors) = 4
    /\ Count(ProjectTool) = 1
    /\ Count(BufferTool) = 1

\* C7: the host parameters pass through verbatim: the buffer operation gets
\* parameter 2 as its input, 5 as its output, 3 as its distances and 4 as its
\* unit, and its input is the value the projection was given as its output;
\* latitude and longitude are parameters 0 and 1.
C7_ParametersVerbatim ==
    /\ pc # "params" =>
          /\ lat = hostParameters[1]
          /\ lon = hostParameters[2]
    /\ \A i \in DOMAIN calls :
          calls[i].tool = BufferTool =>
            /\ calls[i].in.X = hostParameters[3]
            /\ calls[i].out = hostParameters[6]
            /\ calls[i].distances = hostParameters[4]
            /\ calls[i].units = hostParameters[5]
    /\ \A i \in DOMAIN calls :
          calls[i].tool = ProjectTool => calls[i].out = hostParameters[3]
    /\ \A i, j \in DOMAIN calls :
          (calls[i].tool = ProjectTool /\ calls[j].tool = BufferTool) =>
              calls[j].in.X = calls[i].out

\* C7 witness: both operations were invoked and the two paths differ.
C7_Witness ==
    /\ Count(ProjectTool) = 1
    /\ Count(BufferTool) = 1
    /\ hostParameters[3] # hostParameters[6]
    /\ hostParameters[4] # hostParameters[5]

\* C8: the helper is unbuffered: every message call appends exactly one entry
\* to the sink before the script moves on, the helper's entries carry the
\* caller's text behind a time stamp, and the sink holds the entries in the
\* order of the calls, the first being the 'Converting ...' line.
C8_SinkFollowsProgramOrder ==
    /\ [] /\ messages # <<>> => IsStamped(messages[1], ConvertingText)
          /\ \A i \in DOMAIN messages : Kind(messages[i]) # 0
          /\ \A i, j \in DOMAIN messages :
                i < j => Kind(messages[i]) < Kind(messages[j])
          /\ pc = "spc_geometry" => Len(messages) = 1
    /\ [][ /\ (pc \in {"converting", "spc_created", "spc_poll", "spc_success",
                       "buf_poll", "buf_success", "completed"} /\ pc' # pc) =>
                 /\ Len(messages') = Len(messages) + 1
                 /\ SubSeq(messages', 1, Len(messages)) = messages
           /\ (pc \in {"converting", "spc_created", "spc_success",
                       "buf_success", "completed"} /\ pc' # pc) =>
                 messages'[Len(messages')] \in
                    { strftime(now) \o " : " \o text \o " \n \n" :
                        text \in { ConvertingText, ReprojectedText, CompletedText,
                                   CreatedPointText(hostParameters[1], hostParameters[2]),
                                   CreatedBuffersText(hostParameters[1], hostParameters[2]) } }
           /\ messages' # messages => pc' # pc ]_vars

\* C8 witness: a run in which both steps completed has ended: the sink holds
\* all seven entries, stamped across a change of the clock's second.
C8_Witness ==
    /\ pc = "done"
    /\ Len(messages) = 7
    /\ IsStamped(messages[1], ConvertingText)
    /\ clock >= TicksPerSecond

\* C9: the project operation is invoked with the point X = longitude,
\* Y = latitude in reference 4326, the given output path, destination
\* reference 2272 and transformation 'NAD_1983_To_WGS_1984_1', whatever the
\* inputs.
C9_ProjectArguments ==
    /\ geometryPoint # NoGeometry =>
          geometryPoint = [X |-> hostParameters[2], Y |-> hostParameters[1], sr |-> 4326]
    /\ \A i \in DOMAIN calls :
          calls[i].tool = ProjectTool =>
            /\ calls[i].in = [X |-> hostParameters[2], Y |-> hostParameters[1],
                              sr |-> 4326]
            /\ calls[i].out = hostParameters[3]
            /\ calls[i].out_coor_system = 2272
            /\ calls[i].transform_method = "NAD_1983_To_WGS_1984_1"

\* C9 witness: the project operation was invoked for a latitude and a
\* longitude that differ.
C9_Witness ==
    /\ Count(ProjectTool) = 1
    /\ hostParameters[1] # hostParameters[2]

\* C10: within a step the success message and writes to the error channel
\* exclude each other: a step that completed wrote no error, and a step whose
\* call raised wrote neither its success message nor the result's messages.
C10_CompletedOrErrored ==
    /\ pc \in BeforeSpc \cup SpcPcs =>
          /\ errors = <<>>
          /\ ~BufSucceeded /\ ~BufSurfaced
    /\ pc = "spc_except" => ~SpcSucceeded /\ ~SpcSurfaced
    /\ pc \in BufPcs =>
          \/ SpcSucceeded /\ SpcSurfaced /\ errors = <<>>
          \/ ~SpcSucceeded /\ ~SpcSurfaced /\ Len(errors) = 2
    /\ pc = "buf_except" => ~BufSucceeded /\ ~BufSurfaced
    /\ pc \in {"completed", "done"} =>
          /\ SpcSucceeded <=> SpcSurfaced
          /\ BufSucceeded <=> BufSurfaced
          /\ Len(errors) = 2 * (IF SpcSucceeded THEN 0 ELSE 1)
                           + 2 * (IF BufSucceeded THEN 0 ELSE 1)
    /\ pc = "aborted" =>
          /\ ~BufSucceeded /\ ~BufSurfaced
          /\ SpcSucceeded => errors = <<>>
          /\ Len(errors) <= 2

\* C10 witness: the projection completed and the buffer step errored.
C10_Witness ==
    /\ pc = "done"
    /\ SpcSucceeded
    /\ ~BufSucceeded
    /\ Len(errors) = 2

====
